---- MODULE Spec2Model ----
(***************************************************************************)
(* Bitrix24 extraction clients: the retrying request executor and the      *)
(* offset paginators of get_first_deal.py (Bitrix24DealExtractor) and the  *)
(* single-shot request of get-dialogs.py (Bitrix24ChatExporter).           *)
(***************************************************************************)
EXTENDS Integers, Sequences, FiniteSets, TLC

\* ------------------------------------------------------------------ bounds
MaxRetriesBound == 2    \* largest max_retries explored
MaxCalls == 3           \* top-level operations per behaviour
MaxId == 2              \* timeline comment IDs are 1..MaxId (0: ID missing or falsy)
MaxPageLen == 2         \* longest page an arbitrary server sends
MaxRecords == 250       \* largest deal source
MaxChatCalls == 2       \* Bitrix24ChatExporter.make_request calls per behaviour
MaxRequests == 103      \* page requests an endless source answers
MaxMsgId == 1           \* chat message ids are 0..MaxMsgId
MaxLimit == 2           \* largest limit of get_dialog_messages explored
MaxChatPages == 3       \* page requests of one get_dialog_messages call
MaxTextLen == 4         \* pieces of the longest arbitrary comment text
MaxUrlLen == 2          \* pieces of the longest image address
MaxSpaces == 2          \* white-space pieces after the '&nbsp;'
MaxBodyLen == 3         \* pieces of the longest message body
MaxExtractions == 2     \* extractions (paginated calls) of one client
NumThreads == 2         \* threads that share one client
MaxThreadRetries == 1   \* largest max_retries of a call made by a thread
MaxDialogs == 120       \* largest source of recent dialogs
MaxIdLen == 2           \* characters of the longest deal id string
MaxDealId == 2          \* largest integer deal id
MaxOffsetRequests == 3  \* page requests a source of uneven pages answers per call

\* ------------------------------------------------------- program constants
DefaultMaxRetries == 5  \* __init__(..., max_retries=5)
PageSize == 50          \* "Bitrix24 API returns max 50 records"
PageLimit == 100        \* page_count > 100
RateLimitDelay == 5     \* rate_limit_delay=0.5, in tenths of a second

\* ------------------------------------------------------------ Python values
\* A record of the remote API: its ID (0 stands for a missing or falsy ID) and
\* a version v that tells two records with the same ID apart.
Versions == {1, 2}
Records == [ID : 0..MaxId, v : Versions]

\* A JSON value as the client sees it: a mapping or a list with its items.
EmptyDict == [type |-> "dict", items |-> <<>>]
EmptyList == [type |-> "list", items |-> <<>>]
ListOf(s) == [type |-> "list", items |-> s]
DictOf(s) == [type |-> "dict", items |-> s]

\* Python truthiness of a container: non-empty.
Truthy(val) == Len(val.items) > 0

\* isinstance(val, list)
IsList(val) == val.type = "list"

\* ------------------------------------------------- physical attempt results
\* What one session.post / session.get can end in:
\*   transport     ConnectionError, Timeout or another RequestException
\*   http          a response with an error status (raise_for_status raises)
\*   invalid_json  a 2xx response whose body is not JSON
\*   json_scalar   a 2xx JSON body that is null, a number or a boolean
\*   json_list     a 2xx JSON body that is a list (without the item 'error')
\*   json_error    a 2xx JSON object holding the key 'error'
\*   json_object   a 2xx JSON object with neither 'error' nor 'result'
\*   json_result   a 2xx JSON object holding 'result' (payload is its content)
ErrorStatuses == {400, 404, 500, 502, 503, 504}
RetryStatuses == {500, 502, 503, 504}

Transport == [kind |-> "transport", status |-> 0, payload |-> EmptyDict]
HttpError(s) == [kind |-> "http", status |-> s, payload |-> EmptyDict]
Body(k, p) == [kind |-> k, status |-> 200, payload |-> p]

Failures ==
    {Transport} \cup {HttpError(s) : s \in ErrorStatuses}
    \cup {Body("invalid_json", EmptyDict), Body("json_scalar", EmptyDict),
          Body("json_list", EmptyList), Body("json_error", EmptyDict)}

\* The abstract payloads of a direct call: an empty list, a list, a mapping.
DirectPayloads == {EmptyList, ListOf(<<[ID |-> 1, v |-> 1]>>), DictOf(<<[ID |-> 1, v |-> 1]>>)}

DirectResults ==
    Failures
    \cup {Body("json_object", EmptyDict), Body("json_object", DictOf(<<[ID |-> 1, v |-> 1]>>))}
    \cup {Body("json_result", p) : p \in DirectPayloads}

\* ------------------------------------------------------------------- state
VARIABLES
    script,             \* the program that runs: get_first_deal.py or get-dialogs.py
    api_stats,          \* self.api_stats (start_time 0 stands for None)
    self_max_retries,   \* self.max_retries
    json_error_class,   \* the class response.json() raises on a non-JSON body
    op,                 \* the top-level operation in progress
    pc,                 \* position inside make_request_with_retry
    attempt,            \* the for loop's variable
    max_retries,        \* the max_retries parameter of the call in progress
    last_exception,     \* last_exception
    ret,                \* the value make_request_with_retry returned
    outcome,            \* which return statement ended the call
    delay,              \* the delay slept before the last physical attempt
    json_params,        \* the params argument of the call in progress
    verb,               \* the HTTP verb of its last physical attempt
    stats0,             \* api_stats when the call in progress was entered
    physTrace,          \* the physical results of the call in progress
    physCount,          \* session.post calls made so far
    successReturns,     \* calls that returned through line 128
    callsStarted,       \* logical calls entered so far
    callsDone,          \* top-level operations completed so far
    callerResult,       \* what the caller of the top-level operation obtained
    obtained,           \* whether the caller obtained a value (FALSE once the
                        \* operation is over: it raised)
    sourceSize,         \* the number of deals the remote source holds
    all_deals,          \* get_all_deals: all_deals
    messages,           \* get_deal_dialogues: messages
    seen_ids,           \* get_deal_dialogues: seen_ids
    start,              \* the paginator's start
    page_count,         \* get_deal_dialogues: page_count
    requestStarts,      \* the start of every request of the extraction in progress
    pageLens,           \* the length of every non-empty page it processed
    gathered,           \* the records accumulated when an interrupt struck
    sawDuplicate,       \* whether a record was dropped because its ID was seen
    chatRet,            \* what Bitrix24ChatExporter.make_request returned
    chatRaised,         \* the exception the exporter's call let through ("None": none)
    chatMethod,         \* the HTTP verb it used
    chatCalls,          \* its calls so far
    fixedPage,          \* the list a repeating source sends every time
    all_messages,       \* get_dialog_messages: all_messages
    last_id,            \* get_dialog_messages: last_id (NoLastId stands for None)
    limit,              \* get_dialog_messages: limit
    print_msg,          \* print_dialogues: the message of the loop's iteration
    printed,            \* print_dialogues: what the iteration wrote to stdout
    cleaned,            \* what _clean_and_filter_comment returned for its COMMENT
    threads,            \* the frame of make_request_with_retry in every thread
    all_dialogs,        \* get_all_dialogs: all_dialogs
    filter_messenger_only, \* get_all_dialogs: filter_messenger_only
    plain_dialogs,      \* the positions of the source's dialogs that are group chats
    deal_id             \* get_deal_by_id: deal_id

execVars ==
    <<api_stats, pc, attempt, max_retries, last_exception, ret, outcome, delay,
      json_params, verb,
      stats0, physTrace, physCount, successReturns, callsStarted>>
chatVars == <<chatRet, chatRaised, chatMethod, chatCalls>>
callerVars == <<op, callsDone, callerResult, obtained>>
pagVars ==
    <<sourceSize, all_deals, messages, seen_ids, start, page_count, requestStarts,
      pageLens, gathered, sawDuplicate>>
configVars == <<script, self_max_retries, json_error_class, fixedPage>>
dialogVars == <<all_messages, last_id, limit>>
printVars == <<print_msg, printed, cleaned>>
threadVars == <<threads>>
recentVars == <<all_dialogs, filter_messenger_only, plain_dialogs>>
dealVars == <<deal_id>>

vars ==
    <<execVars, chatVars, callerVars, configVars, pagVars, dialogVars, printVars,
      threadVars, recentVars, dealVars>>

\* ----------------------------------------------------- make_request_with_retry
InitStats ==
    [total_requests |-> 0, successful_requests |-> 0, failed_requests |-> 0,
     retry_attempts |-> 0, start_time |-> 0]

\* Delays are in tenths of a second.
NoDelay == [kind |-> "none", tenths |-> 0]

\* random.uniform(0, 1): the least, a middle and the greatest value.
Jitters == {0, 5, 10}

\* bool(response): requests.Response.__bool__ is response.ok, false for a
\* response with an error status.
ResponseTruthy(phys) == phys.status < 400

\* status_code = e.response.status_code if e.response else 0
StatusCode(phys) == IF ResponseTruthy(phys) THEN phys.status ELSE 0

\* Exception classes: requests.exceptions.HTTPError and the library's own
\* JSONDecodeError are RequestExceptions; TypeError, AttributeError and
\* ValueError are plain Exceptions.
IsRequestException(e) ==
    e \in {"HTTPError", "ConnectionError", "RequestsJSONDecodeError"}

\* The try body from session.post to the return: the exception it raises
\* ("None" when it returns), the return statement reached ("error": line 121,
\* "result": line 128), the value returned and the counters it bumped before
\* leaving.
TryResult(e, r, val, s, f) ==
    [exc |-> e, return |-> r, ret |-> val, succ |-> s, fail |-> f]

TryBodyRetriesApiError(phys) ==
    CASE phys.kind = "transport"    -> TryResult("ConnectionError", "none", EmptyDict, 0, 0)
      [] phys.kind = "http"         -> TryResult("HTTPError", "none", EmptyDict, 0, 0)
      [] phys.kind = "invalid_json" -> TryResult(json_error_class, "none", EmptyDict, 0, 0)
      [] phys.kind = "json_scalar"  -> TryResult("TypeError", "none", EmptyDict, 0, 0)
      [] phys.kind = "json_error"   -> TryResult("ConnectionError", "none", EmptyDict, 0, 0)
      [] phys.kind = "json_list"    -> TryResult("AttributeError", "none", EmptyDict, 1, 0)
      [] OTHER                      -> TryResult("None", "result", phys.payload, 1, 0)

TryBody(phys) ==
    CASE phys.kind = "transport"    -> TryResult("ConnectionError", "none", EmptyDict, 0, 0)
      [] phys.kind = "http"         -> TryResult("HTTPError", "none", EmptyDict, 0, 0)
      [] phys.kind = "invalid_json" -> TryResult(json_error_class, "none", EmptyDict, 0, 0)
      [] phys.kind = "json_scalar"  -> TryResult("TypeError", "none", EmptyDict, 0, 0)
      [] phys.kind = "json_error"   -> TryResult("None", "error", EmptyDict, 0, 1)
      [] phys.kind = "json_list"    -> TryResult("AttributeError", "none", EmptyDict, 1, 0)
      [] OTHER                      -> TryResult("None", "result", phys.payload, 1, 0)

HandlerRetriesEveryStatus(e, phys, att, n) ==
    IF e = "HTTPError" \/ IsRequestException(e)
    THEN IF att < n THEN "continue" ELSE "break"
    ELSE "break"

\* The except clauses: whether the loop continues or breaks.
Handler(e, phys, att, n) ==
    IF e = "HTTPError"
    THEN IF StatusCode(phys) \in RetryStatuses /\ att < n THEN "continue" ELSE "break"
    ELSE IF IsRequestException(e)
    THEN IF att < n THEN "continue" ELSE "break"
    ELSE "break"

InRangeOneShort(att, n) == att < n

\* for attempt in range(max_retries + 1): whether the loop has an iteration att.
InRange(att, n) == att < n + 1

AllFailedCountedTwice(st) == [st EXCEPT !.failed_requests = @ + 2]

\* Lines 158-164: all attempts failed.
AllFailed(st) == [st EXCEPT !.failed_requests = @ + 1]

CountAttemptRetriesUncounted(st, att) == [st EXCEPT !.total_requests = @ + 1]

\* Line 86 and lines 92-95: the counters at the top of an iteration.
CountAttempt(st, att) ==
    [st EXCEPT !.total_requests = @ + 1,
               !.retry_attempts = IF att > 0 THEN @ + 1 ELSE @]

DelayBeforeAddsToRateLimit(st, att, jitter) ==
    IF att > 0 \/ st.total_requests > 1
    THEN IF att > 0
         THEN [kind |-> "backoff", tenths |-> RateLimitDelay + 10 * (2 ^ att) + jitter]
         ELSE [kind |-> "rate_limit", tenths |-> RateLimitDelay]
    ELSE NoDelay

\* Lines 90-101: the delay slept before the attempt (st: the counters after
\* line 86, jitter: what random.uniform returns).
DelayBefore(st, att, jitter) ==
    IF att > 0 \/ st.total_requests > 1
    THEN IF att > 0
         THEN [kind |-> "backoff", tenths |-> 10 * (2 ^ att) + jitter]
         ELSE [kind |-> "rate_limit", tenths |-> RateLimitDelay]
    ELSE NoDelay

\* Lines 108-113: the attempt is a session.post whatever params is.
VerbOf(p) == "POST"

\* Lines 79-85: entering make_request_with_retry(method, params, n).
EnterCall(p, n) ==
    LET st == IF api_stats.start_time = 0
              THEN [api_stats EXCEPT !.start_time = callsStarted + 1]
              ELSE api_stats
    IN  /\ stats0' = api_stats
        /\ callsStarted' = callsStarted + 1
        /\ max_retries' = n
        /\ json_params' = p
        /\ verb' = "none"
        /\ attempt' = 0
        /\ last_exception' = "None"
        /\ physTrace' = <<>>
        /\ delay' = NoDelay
        /\ UNCHANGED <<physCount, successReturns>>
        /\ IF InRange(0, n)
           THEN /\ pc' = "loop"
                /\ api_stats' = st
                /\ ret' = EmptyDict
                /\ outcome' = "none"
           ELSE /\ pc' = "done"
                /\ api_stats' = AllFailed(st)
                /\ ret' = EmptyDict
                /\ outcome' = "failure"

\* Lines 86-106: count the attempt and sleep.
BeginAttempt ==
    /\ pc = "loop"
    /\ api_stats' = CountAttempt(api_stats, attempt)
    /\ delay' \in IF attempt > 0
                 THEN {DelayBefore(api_stats', attempt, jitter) : jitter \in Jitters}
                 ELSE {DelayBefore(api_stats', attempt, 0)}
    /\ pc' = "post"
    /\ UNCHANGED <<json_params, verb>>
    /\ UNCHANGED <<attempt, max_retries, last_exception, ret, outcome, stats0,
                   physTrace, physCount, successReturns, callsStarted>>
    /\ UNCHANGED <<chatVars, callerVars, configVars, threadVars, recentVars, dealVars, dialogVars, printVars, pagVars>>

\* Lines 108-164: one session.post, its classification and what follows it.
Dispatch(phys) ==
    /\ pc = "post"
    /\ physTrace' = Append(physTrace, phys)
    /\ physCount' = physCount + 1
    /\ verb' = VerbOf(json_params)
    /\ LET t == TryBody(phys)
           st == [api_stats EXCEPT
                     !.successful_requests = @ + t.succ,
                     !.failed_requests = @ + t.fail]
       IN  IF t.exc = "None"
           THEN /\ api_stats' = st
                /\ ret' = t.ret
                /\ outcome' = IF t.return = "error" THEN "failure" ELSE "success"
                /\ successReturns' =
                       successReturns + (IF t.return = "result" THEN 1 ELSE 0)
                /\ pc' = "done"
                /\ UNCHANGED <<attempt, last_exception>>
           ELSE /\ last_exception' = t.exc
                /\ UNCHANGED successReturns
                /\ IF Handler(t.exc, phys, attempt, max_retries) = "continue"
                      /\ InRange(attempt + 1, max_retries)
                   THEN /\ attempt' = attempt + 1
                        /\ api_stats' = st
                        /\ pc' = "loop"
                        /\ UNCHANGED <<ret, outcome>>
                   ELSE /\ api_stats' = AllFailed(st)
                        /\ ret' = EmptyDict
                        /\ outcome' = "failure"
                        /\ pc' = "done"
                        /\ UNCHANGED attempt
    /\ UNCHANGED <<max_retries, delay, json_params, stats0, callsStarted>>
    /\ UNCHANGED <<chatVars, callerVars, configVars, threadVars, recentVars, dealVars, dialogVars, printVars, pagVars>>

\* The caller has nothing from an operation until it returns.
AwaitResult ==
    /\ callerResult' = EmptyDict
    /\ obtained' = FALSE
    /\ UNCHANGED callsDone

\* A caller invokes make_request_with_retry(method, params, n) directly.
MakeRequestWithRetry(p, n) ==
    /\ script = "get_first_deal"
    /\ op = "none"
    /\ callsDone < MaxCalls
    /\ op' = "direct"
    /\ EnterCall(p, n)
    /\ AwaitResult
    /\ UNCHANGED <<chatVars, configVars, threadVars, recentVars, dealVars, dialogVars, printVars, pagVars>>

\* The direct call returns to its caller.
\* The frame of make_request_with_retry is gone once it has returned.
LeaveCall ==
    /\ pc' = "idle"
    /\ attempt' = 0
    /\ max_retries' = 0
    /\ last_exception' = "None"
    /\ ret' = EmptyDict
    /\ outcome' = "none"
    /\ delay' = NoDelay
    /\ json_params' = "None"
    /\ verb' = "none"
    /\ stats0' = api_stats
    /\ physTrace' = <<>>
    /\ UNCHANGED <<api_stats, physCount, successReturns, callsStarted>>

DirectReturn ==
    /\ op = "direct"
    /\ pc = "done"
    /\ op' = "none"
    /\ callerResult' = ret
    /\ obtained' = TRUE
    /\ callsDone' = callsDone + 1
    /\ LeaveCall
    /\ UNCHANGED <<chatVars, configVars, threadVars, recentVars, dealVars, dialogVars, printVars, pagVars>>

DispatchDirect ==
    /\ op = "direct"
    /\ \E phys \in DirectResults : Dispatch(phys)

\* ---------------------------------------------------------- get_deal_by_id
\* A deal_id argument: its Python type, and its characters (a string) or its
\* number (an int, a bool, which is an int, or a float).
NoneId == [type |-> "NoneType", chars |-> <<>>, number |-> 0]
StrId(chars) == [type |-> "str", chars |-> chars, number |-> 0]
NumId(type, n) == [type |-> type, chars |-> <<>>, number |-> n]
DealIds ==
    {NoneId, NumId("list", 0), NumId("float", 1), NumId("bool", 0), NumId("bool", 1)}
    \cup {StrId(c) : c \in UNION {[1..n -> {"7", "a"}] : n \in 0..MaxIdLen}}
    \cup {NumId("int", n) : n \in (-1)..MaxDealId}

\* deal_id.isdigit(): every character is a digit and there is at least one.
IsDigit(chars) == chars # <<>> /\ \A i \in 1..Len(chars) : chars[i] = "7"

ValidateDealIdFromZero(d) ==
    IF d.type = "NoneType" THEN FALSE
    ELSE IF d.type = "str" THEN IsDigit(d.chars) /\ Len(d.chars) > 0
    ELSE IF d.type \in {"int", "bool"} THEN d.number >= 0
    ELSE FALSE

\* Lines 309-317: validate_deal_id.
ValidateDealId(d) ==
    IF d.type = "NoneType" THEN FALSE
    ELSE IF d.type = "str" THEN IsDigit(d.chars) /\ Len(d.chars) > 0
    ELSE IF d.type \in {"int", "bool"} THEN d.number > 0
    ELSE FALSE

\* Lines 217-224: get_deal_by_id(d) returns {} for an invalid id and requests
\* the deal otherwise.
GetDealById(d) ==
    /\ script = "get_first_deal"
    /\ op = "none"
    /\ callsDone < MaxCalls
    /\ deal_id' = d
    /\ IF ~ValidateDealId(d)
       THEN /\ callerResult' = EmptyDict
            /\ obtained' = TRUE
            /\ callsDone' = callsDone + 1
            /\ UNCHANGED <<op, execVars>>
       ELSE /\ op' = "get_deal_by_id"
            /\ EnterCall("nonempty", self_max_retries)
            /\ AwaitResult
    /\ UNCHANGED <<chatVars, configVars, dialogVars, printVars, pagVars, threadVars,
                   recentVars>>

\* Lines 226-231: the deal, or {} when the result is falsy. A truthy result
\* that is a list has no get: line 227 raises AttributeError, nothing catches
\* it and the caller obtains no value.
DealReturn ==
    /\ op = "get_deal_by_id"
    /\ pc = "done"
    /\ op' = "none"
    /\ IF Truthy(ret) /\ IsList(ret)
       THEN /\ callerResult' = EmptyDict
            /\ obtained' = FALSE
       ELSE /\ callerResult' = IF Truthy(ret) THEN ret ELSE EmptyDict
            /\ obtained' = TRUE
    /\ callsDone' = callsDone + 1
    /\ LeaveCall
    /\ UNCHANGED <<chatVars, configVars, dialogVars, printVars, pagVars, threadVars,
                   recentVars, dealVars>>

CallDealById == \E d \in DealIds : GetDealById(d)

\* crm.deal.get answers with the deal, with a list that holds it, with an API
\* error, or not at all.
DealResults ==
    {Transport, Body("json_error", EmptyDict),
     Body("json_result", DictOf(<<[ID |-> 1, v |-> 1]>>)),
     Body("json_result", ListOf(<<[ID |-> 1, v |-> 1]>>))}

DispatchDeal ==
    /\ op = "get_deal_by_id"
    /\ \E phys \in DealResults : Dispatch(phys)

\* ------------------------------------- make_request_with_retry in threads
\* The client takes no lock: a statement `self.api_stats[key] += 1` reads the
\* counter and stores the sum as two steps of its thread, and another thread
\* may run between them. A thread's frame: its position (pc), the counter its
\* `+=` is at (key), the value it read (reg), its loop variable and its
\* max_retries, the exception that line 128 raises once line 123 has counted
\* the success (exc), and how many increments of each counter it has carried
\* out.
NoIncrements ==
    [total_requests |-> 0, successful_requests |-> 0, failed_requests |-> 0,
     retry_attempts |-> 0]
IdleThread ==
    [pc |-> "idle", key |-> "none", reg |-> 0, attempt |-> 0, max_retries |-> 0,
     exc |-> "None", made |-> NoIncrements]

\* What an attempt of a thread can end in.
ThreadResults ==
    {Transport, HttpError(404), Body("json_error", EmptyDict),
     Body("json_list", EmptyList), Body("json_result", EmptyList)}

ThreadFrame(t, f) ==
    /\ threads' = [threads EXCEPT ![t] = f]
    /\ UNCHANGED <<pc, attempt, max_retries, last_exception, ret, outcome, delay,
                   json_params, verb, stats0, physTrace, physCount, successReturns,
                   callsStarted>>
    /\ UNCHANGED <<chatVars, callerVars, configVars, pagVars, dialogVars, printVars,
                   recentVars, dealVars>>

\* The `+=` of the frame f begins at the counter k.
Increment(f, k) == [f EXCEPT !.pc = "read", !.key = k]

\* Lines 79-85: a thread enters make_request_with_retry(method, params, n).
ThreadCall(t, n) ==
    /\ script = "get_first_deal"
    /\ threads[t].pc = "idle"
    /\ api_stats' = IF api_stats.start_time = 0
                    THEN [api_stats EXCEPT !.start_time = 1]
                    ELSE api_stats
    /\ ThreadFrame(t, IF InRange(0, n)
                      THEN Increment([IdleThread EXCEPT !.max_retries = n],
                                     "total_requests")
                      ELSE Increment([IdleThread EXCEPT !.max_retries = n],
                                     "failed_requests"))

\* The first half of `+=`: the thread reads the counter.
ThreadRead(t) ==
    /\ threads[t].pc = "read"
    /\ UNCHANGED api_stats
    /\ ThreadFrame(t, [threads[t] EXCEPT !.pc = "write",
                                         !.reg = api_stats[threads[t].key]])

\* The second half: it stores the value it read plus one. After line 86 comes
\* line 95 on a retry and the request otherwise; after line 123 comes line
\* 128, which returns, or raises an exception that the handler of line 153
\* answers with break, so that line 159 follows; after lines 118 and 159 the
\* call returns.
ThreadWrite(t) ==
    LET f == threads[t]
        g == [f EXCEPT !.made[f.key] = @ + 1, !.reg = 0]
    IN  /\ f.pc = "write"
        /\ api_stats' = [api_stats EXCEPT ![f.key] = f.reg + 1]
        /\ ThreadFrame(t,
               IF f.key = "total_requests" /\ f.attempt > 0
               THEN Increment(g, "retry_attempts")
               ELSE IF f.key \in {"total_requests", "retry_attempts"}
               THEN [g EXCEPT !.pc = "post", !.key = "none"]
               ELSE IF f.key = "successful_requests" /\ f.exc # "None"
               THEN Increment([g EXCEPT !.exc = "None"], "failed_requests")
               ELSE [g EXCEPT !.pc = "done", !.key = "none"])

\* Lines 108-164: the request of the thread, its classification and the
\* counter that follows it.
ThreadPost(t, phys) ==
    LET f == threads[t]
        r == TryBody(phys)
    IN  /\ f.pc = "post"
        /\ UNCHANGED api_stats
        /\ ThreadFrame(t,
               IF r.succ > 0
               THEN Increment([f EXCEPT !.exc = r.exc], "successful_requests")
               ELSE IF r.exc = "None"
               THEN Increment(f, "failed_requests")
               ELSE IF Handler(r.exc, phys, f.attempt, f.max_retries) = "continue"
                       /\ InRange(f.attempt + 1, f.max_retries)
               THEN Increment([f EXCEPT !.attempt = @ + 1], "total_requests")
               ELSE Increment(f, "failed_requests"))

ThreadStep ==
    \E t \in 1..NumThreads :
        \/ \E n \in 0..MaxThreadRetries : ThreadCall(t, n)
        \/ ThreadRead(t)
        \/ ThreadWrite(t)
        \/ \E phys \in ThreadResults : ThreadPost(t, phys)

\* ------------------------------------------- Bitrix24ChatExporter.make_request
ChatEmpty == Body("json_object", EmptyDict)

\* The try body of make_request: the exception raised ("None": none) and the
\* value returned; a success returns the decoded body itself.
ChatTryBody(phys) ==
    CASE phys.kind = "transport"    -> [exc |-> "ConnectionError", ret |-> ChatEmpty]
      [] phys.kind = "http"         -> [exc |-> "HTTPError", ret |-> ChatEmpty]
      [] phys.kind = "invalid_json" -> [exc |-> json_error_class, ret |-> ChatEmpty]
      [] phys.kind = "json_scalar"  -> [exc |-> "TypeError", ret |-> ChatEmpty]
      [] phys.kind = "json_error"   -> [exc |-> "None", ret |-> ChatEmpty]
      [] OTHER                      -> [exc |-> "None", ret |-> phys]

\* The except clauses of make_request: ProxyError, SSLError, Timeout,
\* RequestException and json.JSONDecodeError (a ValueError) return {}.
ChatCaught(e) == IsRequestException(e) \/ e = "ValueError"

ChatMakeRequest(params, phys) ==
    /\ script = "get-dialogs"
    /\ chatCalls < MaxChatCalls
    /\ chatCalls' = chatCalls + 1
    /\ chatMethod' = IF params = "nonempty" THEN "POST" ELSE "GET"
    /\ LET t == ChatTryBody(phys)
       IN  IF t.exc = "None" \/ ChatCaught(t.exc)
           THEN chatRaised' = "None" /\ chatRet' = t.ret
           ELSE chatRaised' = t.exc /\ chatRet' = ChatEmpty
    /\ UNCHANGED <<execVars, callerVars, configVars, threadVars, recentVars, dealVars, dialogVars, printVars, pagVars>>

ChatRequest ==
    \E params \in {"None", "empty", "nonempty"}, phys \in DirectResults :
        ChatMakeRequest(params, phys)

\* ---------------------------------------------------- get_dialog_messages
\* A text is the sequence of its pieces: "x" an ordinary character, " " a
\* white-space character, every other piece the literal it names.
Contains(text, piece) == \E i \in 1..Len(text) : text[i] = piece

\* text.strip() is empty.
IsBlank(text) == \A i \in 1..Len(text) : text[i] = " "

ChatTexts == {<<>>, <<"x">>, <<"[URL=", "x", "]">>}
ChatMessages == [id : 0..MaxMsgId, author_id : {0, 1}, text : ChatTexts]

PhrasesButTheLast == {"neprochitannyh iz", "Otvetit v", "na kanal"}

\* The four notification phrases of lines 585-590, transliterated.
Phrases == {"neprochitannyh iz", "Otvetit v", "na kanal", "Sdelka po obrashcheniyu"}
\* Line 564: msg.get('author_id', 0); NoAuthor stands for a record without
\* the key.
NoAuthor == -1
AuthorId(m) == IF m.author_id = NoAuthor THEN 0 ELSE m.author_id

IsUserMessageOfAnyAuthor(m) ==
    /\ ~(Contains(m.text, "[URL=") /\ Contains(m.text, "]"))
    /\ ~Contains(m.text, "bitrix24.ru/crm/")
    /\ ~\E phrase \in Phrases : Contains(m.text, phrase)
    /\ ~IsBlank(m.text)

\* Lines 562-603: the message is kept.
IsUserMessage(m) ==
    /\ AuthorId(m) # 0
    /\ ~(Contains(m.text, "[URL=") /\ Contains(m.text, "]"))
    /\ ~Contains(m.text, "bitrix24.ru/crm/")
    /\ ~\E phrase \in Phrases : Contains(m.text, phrase)
    /\ ~IsBlank(m.text)

\* Lines 561-603: filtered_messages.
FilteredMessages(page) == SelectSeq(page, IsUserMessage)

\* Line 533: last_id = None
NoLastId == -1

\* Lines 541-542: the LAST_ID of params, present when last_id is truthy.
LastIdParam(l) == IF l # NoLastId /\ l # 0 THEN l ELSE NoLastId

\* Line 612: min(msg['id'] for msg in messages)
MinId(page) ==
    CHOOSE m \in {page[i].id : i \in 1..Len(page)} :
        \A i \in 1..Len(page) : m <= page[i].id

\* return all_messages (line 620).
FinishMessages(result) ==
    /\ op' = "none"
    /\ callerResult' = ListOf(result)
    /\ obtained' = TRUE
    /\ callsDone' = callsDone + 1
    /\ all_messages' = <<>>
    /\ last_id' = NoLastId
    /\ limit' = 0

\* Lines 532-533: the locals of a call get_dialog_messages(dialog_id, lim).
GetDialogMessages(lim) ==
    /\ script = "get-dialogs"
    /\ op = "none"
    /\ callsDone = 0
    /\ op' = "get_dialog_messages"
    /\ all_messages' = <<>>
    /\ last_id' = NoLastId
    /\ limit' = lim
    /\ requestStarts' = <<>>
    /\ pageLens' = <<>>
    /\ callerResult' = EmptyDict
    /\ obtained' = FALSE
    /\ UNCHANGED callsDone
    /\ UNCHANGED <<sourceSize, all_deals, messages, seen_ids, start, page_count,
                   gathered, sawDuplicate>>
    /\ UNCHANGED <<execVars, chatVars, configVars, threadVars, recentVars, dealVars, printVars>>

\* What leaves a paginator of the exporter after a request: the exception
\* make_request does not catch, or the AttributeError of
\* result['result'].get(...) (lines 358, 493 and 549) when the 'result' of the
\* answer is a list; "None" when the iteration goes on.
ExporterRaises(t) ==
    IF ~(t.exc = "None" \/ ChatCaught(t.exc)) THEN t.exc
    ELSE IF t.exc = "None" /\ t.ret.kind = "json_result" /\ IsList(t.ret.payload)
    THEN "AttributeError"
    ELSE "None"

\* Lines 535-618: one iteration of the loop, its request answered with phys.
\* requestStarts records the LAST_ID each request carried (NoLastId: none).
DialogMessagesPage(phys) ==
    /\ op = "get_dialog_messages"
    /\ Len(requestStarts) < MaxChatPages
    /\ requestStarts' = Append(requestStarts, LastIdParam(last_id))
    /\ chatCalls' = chatCalls + 1
    /\ chatMethod' = "POST"
    /\ LET t == ChatTryBody(phys)
           result == t.ret
           page == result.payload.items
           raised == ExporterRaises(t)
       IN  IF raised # "None"
           THEN /\ chatRaised' = raised
                /\ chatRet' = IF t.exc # "None" THEN ChatEmpty ELSE result
                /\ op' = "none"
                /\ callerResult' = EmptyDict
                /\ obtained' = FALSE
                /\ callsDone' = callsDone + 1
                /\ all_messages' = <<>>
                /\ last_id' = NoLastId
                /\ limit' = 0
                /\ UNCHANGED pageLens
           ELSE /\ chatRaised' = "None"
                /\ chatRet' = result
                /\ IF result.kind # "json_result" \/ page = <<>>
                   THEN /\ FinishMessages(all_messages)
                        /\ UNCHANGED pageLens
                   ELSE /\ pageLens' = Append(pageLens, Len(page))
                        /\ IF Len(page) < limit
                           THEN FinishMessages(all_messages \o FilteredMessages(page))
                           ELSE /\ all_messages' = all_messages \o FilteredMessages(page)
                                /\ last_id' = MinId(page)
                                /\ UNCHANGED <<limit, callerVars>>
    /\ UNCHANGED <<sourceSize, all_deals, messages, seen_ids, start, page_count,
                   gathered, sawDuplicate>>
    /\ UNCHANGED <<execVars, configVars, threadVars, recentVars, dealVars, printVars>>

\* ---------------------------------------------- get_wazzup_dialog_messages
\* Lines 479-484: possible_dialog_ids has four entries.
PossibleDialogIds == 4

\* Line 510: text.strip() and author_id != 0
IsWazzupUserMessage(m) == ~IsBlank(m.text) /\ AuthorId(m) # 0

\* Lines 476-486: the locals of a call get_wazzup_dialog_messages(contact_id).
GetWazzupDialogMessages ==
    /\ script = "get-dialogs"
    /\ op = "none"
    /\ callsDone = 0
    /\ op' = "get_wazzup_dialog_messages"
    /\ all_messages' = <<>>
    /\ requestStarts' = <<>>
    /\ pageLens' = <<>>
    /\ callerResult' = EmptyDict
    /\ obtained' = FALSE
    /\ UNCHANGED <<callsDone, last_id, limit>>
    /\ UNCHANGED <<sourceSize, all_deals, messages, seen_ids, start, page_count,
                   gathered, sawDuplicate>>
    /\ UNCHANGED <<execVars, chatVars, configVars, threadVars, recentVars, dealVars, printVars>>

\* Lines 488-516: one iteration of the loop over possible_dialog_ids, its
\* request answered with phys. requestStarts records the position of the
\* dialog id each request carried.
WazzupPage(phys) ==
    /\ op = "get_wazzup_dialog_messages"
    /\ Len(requestStarts) < PossibleDialogIds
    /\ requestStarts' = Append(requestStarts, Len(requestStarts) + 1)
    /\ chatCalls' = chatCalls + 1
    /\ chatMethod' = "POST"
    /\ LET t == ChatTryBody(phys)
           result == t.ret
           page == result.payload.items
           user_messages == SelectSeq(page, IsWazzupUserMessage)
           found == result.kind = "json_result" /\ user_messages # <<>>
           last == Len(requestStarts) + 1 = PossibleDialogIds
           raised == ExporterRaises(t)
       IN  IF raised # "None"
           THEN /\ chatRaised' = raised
                /\ chatRet' = IF t.exc # "None" THEN ChatEmpty ELSE result
                /\ op' = "none"
                /\ callerResult' = EmptyDict
                /\ obtained' = FALSE
                /\ callsDone' = callsDone + 1
                /\ all_messages' = <<>>
                /\ UNCHANGED <<pageLens, last_id, limit>>
           ELSE /\ chatRaised' = "None"
                /\ chatRet' = result
                /\ pageLens' = IF result.kind = "json_result" /\ page # <<>>
                               THEN Append(pageLens, Len(page))
                               ELSE pageLens
                /\ IF found \/ last
                   THEN FinishMessages(IF found THEN user_messages ELSE <<>>)
                   ELSE UNCHANGED <<all_messages, last_id, limit, callerVars>>
    /\ UNCHANGED <<sourceSize, all_deals, messages, seen_ids, start, page_count,
                   gathered, sawDuplicate>>
    /\ UNCHANGED <<execVars, configVars, threadVars, recentVars, dealVars, printVars>>

\* --------------------------------------------------------- get_all_dialogs
\* The dialogs of im.recent.list: an open-line dialog of the Wazzup bot, or a
\* group chat.
WazzupAppId == "app.5a8d2732b3d737.64069747"
WazzupDialog(i) == [id |-> i, type |-> "user", bot |-> TRUE, app_id |-> WazzupAppId]
GroupChat(i) == [id |-> i, type |-> "chat", bot |-> FALSE, app_id |-> ""]

\* Lines 398-424: is_messenger_dialog, for a dialog whose user has no
\* work_position and no name.
IsMessengerDialog(dialog) ==
    IF dialog.type # "user" THEN FALSE
    ELSE IF ~dialog.bot THEN FALSE
    ELSE dialog.app_id = WazzupAppId

\* Line 344: limit = 50
RecentLimit == 50

\* The source holds sourceSize dialogs, those at plain_dialogs group chats,
\* and answers a request with the RecentLimit dialogs that follow start.
DialogAt(i) == IF i \in plain_dialogs THEN GroupChat(i) ELSE WazzupDialog(i)
RecentPage(s) ==
    LET left == IF s < sourceSize THEN sourceSize - s ELSE 0
        n == IF left < RecentLimit THEN left ELSE RecentLimit
    IN  Body("json_result", DictOf([i \in 1..n |-> DialogAt(s + i)]))

\* return all_dialogs (line 385).
FinishDialogs(result) ==
    /\ op' = "none"
    /\ callerResult' = ListOf(result)
    /\ obtained' = TRUE
    /\ callsDone' = callsDone + 1
    /\ all_dialogs' = <<>>
    /\ start' = 0
    /\ UNCHANGED filter_messenger_only

\* Lines 341-344: the locals of a call get_all_dialogs(f).
GetAllDialogs(f) ==
    /\ script = "get-dialogs"
    /\ op = "none"
    /\ callsDone = 0
    /\ op' = "get_all_dialogs"
    /\ filter_messenger_only' = f
    /\ all_dialogs' = <<>>
    /\ start' = 0
    /\ requestStarts' = <<>>
    /\ pageLens' = <<>>
    /\ callerResult' = EmptyDict
    /\ obtained' = FALSE
    /\ UNCHANGED <<callsDone, plain_dialogs>>
    /\ UNCHANGED <<sourceSize, all_deals, messages, seen_ids, page_count, gathered,
                   sawDuplicate>>
    /\ UNCHANGED <<execVars, chatVars, configVars, threadVars, dialogVars, printVars,
                   dealVars>>

\* Lines 346-382: one iteration of the loop, its request answered with phys.
AllDialogsPage(phys) ==
    /\ op = "get_all_dialogs"
    /\ requestStarts' = Append(requestStarts, start)
    /\ chatCalls' = chatCalls + 1
    /\ chatMethod' = "POST"
    /\ LET t == ChatTryBody(phys)
           result == t.ret
           items == result.payload.items
           dialogs == IF filter_messenger_only
                      THEN SelectSeq(items, IsMessengerDialog)
                      ELSE items
           raised == ExporterRaises(t)
       IN  IF raised # "None"
           THEN /\ chatRaised' = raised
                /\ chatRet' = IF t.exc # "None" THEN ChatEmpty ELSE result
                /\ op' = "none"
                /\ callerResult' = EmptyDict
                /\ obtained' = FALSE
                /\ callsDone' = callsDone + 1
                /\ all_dialogs' = <<>>
                /\ start' = 0
                /\ UNCHANGED <<pageLens, filter_messenger_only>>
           ELSE /\ chatRaised' = "None"
                /\ chatRet' = result
                /\ IF result.kind # "json_result" \/ items = <<>>
                   THEN /\ FinishDialogs(all_dialogs)
                        /\ UNCHANGED pageLens
                   ELSE /\ pageLens' = Append(pageLens, Len(items))
                        /\ IF Len(dialogs) < RecentLimit
                           THEN FinishDialogs(all_dialogs \o dialogs)
                           ELSE /\ all_dialogs' = all_dialogs \o dialogs
                                /\ start' = start + RecentLimit
                                /\ UNCHANGED <<filter_messenger_only, callerVars>>
    /\ UNCHANGED <<sourceSize, all_deals, messages, seen_ids, page_count, gathered,
                   sawDuplicate, plain_dialogs>>
    /\ UNCHANGED <<execVars, configVars, threadVars, dialogVars, printVars, dealVars>>

CallAllDialogs == \E f \in BOOLEAN : GetAllDialogs(f)

\* im.recent.list answers with the page, not at all, with the body null, or
\* with a 'result' that is a list.
DispatchRecent ==
    \E phys \in {Transport, RecentPage(start), Body("json_scalar", EmptyDict),
                 Body("json_result", EmptyList)} :
        AllDialogsPage(phys)

\* ------------------------------------------------------------- paginators
Min(a, b) == IF a < b THEN a ELSE b

\* The locals of a paginator whose frame is gone.
DropLocals ==
    /\ all_deals' = <<>>
    /\ messages' = <<>>
    /\ seen_ids' = {}
    /\ start' = 0
    /\ page_count' = 0

FinishExtractionEmpty(result) ==
    /\ op' = "none"
    /\ callerResult' = EmptyList
    /\ obtained' = TRUE
    /\ callsDone' = callsDone + 1
    /\ LeaveCall
    /\ DropLocals

\* return result: the caller obtains the list.
FinishExtraction(result) ==
    /\ op' = "none"
    /\ callerResult' = ListOf(result)
    /\ obtained' = TRUE
    /\ callsDone' = callsDone + 1
    /\ LeaveCall
    /\ DropLocals

\* self.make_request(method, params) with params['start'] = s (line 65).
NextRequest(s) ==
    /\ EnterCall("nonempty", self_max_retries)
    /\ requestStarts' = Append(requestStarts, s)
    /\ UNCHANGED callerVars

NextStartByOne(s, batch) == s + 1

\* Line 199: start += len(batch)
NextStart(s, batch) == s + Len(batch)

\* Line 202: len(batch) < 50
IsLastPage(batch) == Len(batch) < PageSize

\* get_all_deals, lines 187-195: the locals and the first request.
StartAllDeals ==
    /\ script = "get_first_deal"
    /\ op = "none"
    /\ op' = "get_all_deals"
    /\ all_deals' = <<>>
    /\ start' = 0
    /\ requestStarts' = <<0>>
    /\ pageLens' = <<>>
    /\ EnterCall("nonempty", self_max_retries)
    /\ AwaitResult
    /\ UNCHANGED <<messages, seen_ids, page_count, sourceSize, gathered, sawDuplicate>>
    /\ UNCHANGED <<chatVars, configVars, threadVars, recentVars, dealVars, dialogVars, printVars>>

\* The first extraction of a client.
GetAllDeals ==
    /\ callsDone = 0
    /\ StartAllDeals

\* A later extraction of the same client.
GetAllDealsAgain ==
    /\ callsDone \in 1..(MaxExtractions - 1)
    /\ StartAllDeals

\* get_all_deals, lines 196-205: one batch, then the next request or the return.
DealsPage ==
    /\ op = "get_all_deals"
    /\ pc = "done"
    /\ LET batch == ret
       IN  IF ~IsList(batch) \/ ~Truthy(batch)
           THEN /\ FinishExtraction(all_deals)
                /\ UNCHANGED <<requestStarts, pageLens>>
           ELSE /\ pageLens' = Append(pageLens, Len(batch.items))
                /\ IF IsLastPage(batch.items)
                   THEN /\ FinishExtraction(all_deals \o batch.items)
                        /\ UNCHANGED requestStarts
                   ELSE /\ all_deals' = all_deals \o batch.items
                        /\ start' = NextStart(start, batch.items)
                        /\ NextRequest(NextStart(start, batch.items))
                        /\ UNCHANGED <<messages, seen_ids, page_count>>
    /\ UNCHANGED <<sourceSize, gathered, sawDuplicate>>
    /\ UNCHANGED <<chatVars, configVars, threadVars, recentVars, dealVars, dialogVars, printVars>>

RECURSIVE NewMessagesUnchecked(_, _)
NewMessagesUnchecked(batch, seen) ==
    IF batch = <<>> THEN <<>>
    ELSE LET msg == Head(batch)
             msg_id == msg.ID
         IN  IF msg_id # 0
             THEN <<msg>> \o NewMessagesUnchecked(Tail(batch), seen \cup {msg_id})
             ELSE NewMessagesUnchecked(Tail(batch), seen)

\* Lines 344-350: the records of batch whose ID is truthy and not yet seen, in
\* batch order, each ID once.
RECURSIVE NewMessages(_, _)
NewMessages(batch, seen) ==
    IF batch = <<>> THEN <<>>
    ELSE LET msg == Head(batch)
             msg_id == msg.ID
         IN  IF msg_id # 0 /\ msg_id \notin seen
             THEN <<msg>> \o NewMessages(Tail(batch), seen \cup {msg_id})
             ELSE NewMessages(Tail(batch), seen)

IdsOf(recs) == {recs[i].ID : i \in 1..Len(recs)}

\* The records of batch that carry an ID and are not among new.
Duplicates(batch, new) ==
    Cardinality({i \in 1..Len(batch) : batch[i].ID # 0}) - Len(new)

\* Line 357: start += len(batch), the statement of line 199.
DialoguesNextStart(s, batch) == NextStart(s, batch)

NoNewMessagesIgnored(new) == FALSE

\* Line 352: not new_messages
NoNewMessages(new) == new = <<>>

ExtendAtFront(list, new) == new \o list

\* Line 356: messages.extend(new_messages)
Extend(list, new) == list \o new

SeenAfterNothing(seen, new) == seen

\* Lines 344-350: seen_ids once the IDs of the new records were added.
SeenAfter(seen, new) == seen \cup IdsOf(new)

\* get_deal_dialogues, lines 329-340: the locals and the first request.
StartDealDialogues ==
    /\ script = "get_first_deal"
    /\ op = "none"
    /\ op' = "get_deal_dialogues"
    /\ messages' = <<>>
    /\ seen_ids' = {}
    /\ start' = 0
    /\ page_count' = 0
    /\ requestStarts' = <<0>>
    /\ pageLens' = <<>>
    /\ EnterCall("nonempty", self_max_retries)
    /\ AwaitResult
    /\ sawDuplicate' = FALSE
    /\ UNCHANGED <<all_deals, sourceSize, gathered>>
    /\ UNCHANGED <<chatVars, configVars, threadVars, recentVars, dealVars, dialogVars, printVars>>

\* The first extraction of a client.
GetDealDialogues ==
    /\ callsDone = 0
    /\ StartDealDialogues

\* A later extraction of the same client.
GetDealDialoguesAgain ==
    /\ callsDone \in 1..(MaxExtractions - 1)
    /\ StartDealDialogues

\* get_deal_dialogues, lines 341-366: one batch, then the next request or the
\* return.
DialoguesPage ==
    /\ op = "get_deal_dialogues"
    /\ pc = "done"
    /\ LET batch == ret
           new_messages == NewMessages(batch.items, seen_ids)
       IN  IF ~IsList(batch) \/ ~Truthy(batch)
           THEN /\ FinishExtraction(messages)
                /\ UNCHANGED <<requestStarts, pageLens, sawDuplicate>>
           ELSE /\ pageLens' = Append(pageLens, Len(batch.items))
                /\ sawDuplicate' =
                       (sawDuplicate \/ Duplicates(batch.items, new_messages) > 0)
                /\ IF NoNewMessages(new_messages)
                   THEN /\ FinishExtraction(messages)
                        /\ UNCHANGED requestStarts
                   ELSE IF page_count + 1 > PageLimit
                   THEN /\ FinishExtraction(Extend(messages, new_messages))
                        /\ UNCHANGED requestStarts
                   ELSE /\ messages' = Extend(messages, new_messages)
                        /\ seen_ids' = SeenAfter(seen_ids, new_messages)
                        /\ start' = DialoguesNextStart(start, batch.items)
                        /\ page_count' = page_count + 1
                        /\ NextRequest(DialoguesNextStart(start, batch.items))
                        /\ UNCHANGED all_deals
    /\ UNCHANGED <<sourceSize, gathered>>
    /\ UNCHANGED <<chatVars, configVars, threadVars, recentVars, dealVars, dialogVars, printVars>>

\* KeyboardInterrupt while make_request sleeps or waits for the response: no
\* except clause of make_request_with_retry or of the paginator catches it, the
\* frames unwind and main (lines 673-675) prints a notice.
Interrupt ==
    /\ op \in {"get_all_deals", "get_deal_dialogues"}
    /\ pc \in {"loop", "post"}
    /\ op' = "interrupted"
    /\ gathered' = Len(all_deals) + Len(messages)
    /\ LeaveCall
    /\ DropLocals
    /\ UNCHANGED <<callsDone, callerResult, obtained>>
    /\ UNCHANGED <<sourceSize, requestStarts, pageLens, sawDuplicate>>
    /\ UNCHANGED <<chatVars, configVars, threadVars, recentVars, dealVars, dialogVars, printVars>>

\* ------------------------------------------------------------ remote servers
\* A deal source of sourceSize records that serves at most PageSize records
\* from the requested start.
Rec(i) == [ID |-> i, v |-> 1]
HonestPage(s) ==
    LET n == IF s < sourceSize THEN Min(PageSize, sourceSize - s) ELSE 0
    IN  Body("json_result", ListOf([i \in 1..n |-> Rec(s + i)]))

DispatchDeals ==
    /\ op = "get_all_deals"
    /\ \E phys \in {Transport, HonestPage(start)} : Dispatch(phys)

\* A comment source that may answer anything: any page of records, repeated,
\* overlapping or without IDs, a mapping, or an API error.
Pages == UNION {[1..n -> Records] : n \in 0..MaxPageLen}
DialogueResults ==
    {Body("json_error", EmptyDict), Body("json_result", DictOf(<<Rec(1)>>))}
    \cup {Body("json_result", ListOf(p)) : p \in Pages}

DispatchDialogues ==
    /\ op = "get_deal_dialogues"
    /\ \E phys \in DialogueResults : Dispatch(phys)

\* A source that never runs dry: it answers the request for start s with a
\* full page of records nobody has seen before, or with an API error.
FirstRecords(n) == [i \in 1..n |-> Rec(i)]
FreshPage(s) == Body("json_result", ListOf([i \in 1..PageSize |-> Rec(s + i)]))
EndlessResults == {Body("json_error", EmptyDict), FreshPage(start)}

DispatchEndless ==
    /\ op \in {"get_all_deals", "get_deal_dialogues"}
    /\ Len(requestStarts) <= MaxRequests
    /\ \E phys \in EndlessResults : Dispatch(phys)

\* A source of uneven pages, for deals and for comments alike: it answers the
\* request for start s with 0, 1, 2, PageSize or PageSize + 1 records nobody
\* has seen before, or with a page that repeats the first record.
OffsetPages(s) ==
    {[i \in 1..n |-> Rec(s + i)] : n \in {0, 1, 2, PageSize, PageSize + 1}}
        \cup {<<Rec(1), Rec(s + 1)>>}

DispatchOffsets ==
    /\ op \in {"get_all_deals", "get_deal_dialogues"}
    /\ Len(requestStarts) <= MaxOffsetRequests
    /\ \E p \in OffsetPages(start) : Dispatch(Body("json_result", ListOf(p)))

\* A comment source that answers every request with the same list.
DispatchRepeat ==
    /\ op = "get_deal_dialogues"
    /\ Dispatch(Body("json_result", ListOf(fixedPage)))

\* A chat history source that may answer anything: any page of messages,
\* repeated or overlapping, a 'result' that is a list of messages, the body
\* null, an API error or a transport failure.
ChatPages == UNION {[1..n -> ChatMessages] : n \in 0..MaxLimit}
ChatPageResults ==
    {Transport, Body("json_error", EmptyDict), Body("json_scalar", EmptyDict)}
    \cup {Body("json_result", DictOf(p)) : p \in ChatPages}
    \cup {Body("json_result", ListOf(p)) : p \in ChatPages}

DispatchMessages == \E phys \in ChatPageResults : DialogMessagesPage(phys)

\* A chat history source that honours LAST_ID: fixedPage holds the messages of
\* the dialog, newest first, and a request gets the first lim of those whose
\* id is below the LAST_ID it carries (of all of them when it carries none).
HonestHistoryPage(l, lim) ==
    LET older == SelectSeq(fixedPage, LAMBDA m : l = NoLastId \/ m.id < l)
        n == IF Len(older) < lim THEN Len(older) ELSE lim
    IN  Body("json_result", DictOf(SubSeq(older, 1, n)))

DispatchHonest ==
    DialogMessagesPage(HonestHistoryPage(LastIdParam(last_id), limit))

\* The histories of a dialog: messages with distinct ids, newest first.
Histories ==
    {h \in ChatPages : \A i, j \in 1..Len(h) : i < j => h[i].id > h[j].id}

\* The chat messages a filter can meet: a record with or without author_id,
\* its text empty, blank, plain, a '[URL=' with and without its ']', a CRM
\* link or one of the notification phrases next to ordinary text.
FilterTexts ==
    {<<>>, <<" ">>, <<"x">>, <<"[URL=", "x", "]">>, <<"[URL=", "x">>,
     <<"x", "bitrix24.ru/crm/">>}
    \cup {<<"x", "neprochitannyh iz">>, <<"x", "Otvetit v">>, <<"x", "na kanal">>,
          <<"x", "Sdelka po obrashcheniyu">>}
FilterMessages == [id : {1}, author_id : {NoAuthor, 0, 1}, text : FilterTexts]
FilterPages == UNION {[1..n -> FilterMessages] : n \in 0..MaxLimit}

\* A chat history source that answers every request with the same page, with
\* its messages as a bare list, or not at all.
FixedChatPage == Body("json_result", DictOf(fixedPage))

DispatchFilter ==
    \E phys \in {Transport, FixedChatPage, Body("json_result", ListOf(fixedPage))} :
        DialogMessagesPage(phys)

DispatchWazzup ==
    \E phys \in {Transport, FixedChatPage, Body("json_result", ListOf(fixedPage))} :
        WazzupPage(phys)

\* ------------------------------------------------------------ print_dialogues
\* Comment texts are sequences of pieces, as chat texts are. No piece is a line
\* break, so the '.' of the pattern of line 400 matches every piece.
Marker == "=== SYSTEM WZ ==="
Pieces == {"x", " ", "[img]", "[/img]", "&nbsp;", "[url=", "[/url]", Marker}

\* One message of the list and the output of its iteration: done when the
\* iteration ran, shown when it printed the header and the text.
NoMessage == [COMMENT |-> <<>>, CREATED |-> "none"]
NoOutput == [done |-> FALSE, shown |-> FALSE, date |-> "", text |-> <<>>]
Skipped == [done |-> TRUE, shown |-> FALSE, date |-> "", text |-> <<>>]
Shown(date, text) == [done |-> TRUE, shown |-> TRUE, date |-> date, text |-> text]

\* The result of _clean_and_filter_comment: None or a text.
NotCalled == [done |-> FALSE, none |-> TRUE, text |-> <<>>]
None == [done |-> TRUE, none |-> TRUE, text |-> <<>>]
Some(text) == [done |-> TRUE, none |-> FALSE, text |-> text]

\* Line 390: the date of the header; fromisoformat raises ValueError on a
\* string that is no ISO date.
DateRaises(date_str) == date_str = "bad"
DateOf(date_str) == IF date_str = "" THEN "N/A" ELSE "formatted"

IsSkippedUrlOnly(text) == Contains(text, "[url=")

\* Line 395: '[url=' in text or '=== SYSTEM WZ ===' in text
IsSkipped(text) == Contains(text, "[url=") \/ Contains(text, Marker)

\* Line 399: text.replace('&nbsp;', '')
RemoveNbsp(text) == SelectSeq(text, LAMBDA p : p # "&nbsp;")

\* The pieces after the first occurrence of piece.
RECURSIVE AfterFirst(_, _)
AfterFirst(text, piece) ==
    IF text = <<>> THEN <<>>
    ELSE IF Head(text) = piece THEN Tail(text)
    ELSE AfterFirst(Tail(text), piece)

\* re.sub(open + '.*?' + close, '', text): every left-most shortest stretch
\* from an opening tag to the next closing tag is removed.
RECURSIVE RemoveWrapped(_, _, _)
RemoveWrapped(text, open, close) ==
    IF text = <<>> THEN <<>>
    ELSE IF Head(text) = open /\ Contains(Tail(text), close)
    THEN RemoveWrapped(AfterFirst(Tail(text), close), open, close)
    ELSE <<Head(text)>> \o RemoveWrapped(Tail(text), open, close)

RemoveImgTagsOnly(text) == SelectSeq(text, LAMBDA p : p # "[img]" /\ p # "[/img]")

\* Line 400: re.sub(r'\[img\].*?\[\/img\]', '', text)
RemoveImg(text) == RemoveWrapped(text, "[img]", "[/img]")

RECURSIVE LStrip(_)
LStrip(text) ==
    IF text # <<>> /\ Head(text) = " " THEN LStrip(Tail(text)) ELSE text

RECURSIVE RStrip(_)
RStrip(text) ==
    IF text # <<>> /\ text[Len(text)] = " "
    THEN RStrip(SubSeq(text, 1, Len(text) - 1))
    ELSE text

StripEverySpace(text) == SelectSeq(text, LAMBDA p : p # " ")

\* Line 403: text.strip()
Strip(text) == RStrip(LStrip(text))

\* Lines 387-406: the iteration of the loop for message m; an exception of the
\* try body skips the message.
Output(m) ==
    IF DateRaises(m.CREATED) THEN Skipped
    ELSE IF IsSkipped(m.COMMENT) THEN Skipped
    ELSE Shown(DateOf(m.CREATED), Strip(RemoveImg(RemoveNbsp(m.COMMENT))))

\* print_dialogues([m]) for the message drawn at the start; the iterations of
\* a longer list carry nothing from one message to the next.
PrintDialogues ==
    /\ script = "get_first_deal"
    /\ print_msg # NoMessage
    /\ ~printed.done
    /\ printed' = Output(print_msg)
    /\ UNCHANGED <<print_msg, cleaned>>
    /\ UNCHANGED <<execVars, chatVars, callerVars, configVars, threadVars, recentVars, dealVars, pagVars, dialogVars>>

\* _clean_and_filter_comment(text): the rules of the text filter in order.
StripWrappers(text) ==
    RemoveWrapped(RemoveWrapped(RemoveNbsp(text), "[img]", "[/img]"),
                  "[url=", "[/url]")
CleanAndFilterComment(text) ==
    IF IsBlank(text) THEN None
    ELSE IF Contains(text, Marker) THEN None
    ELSE IF \E phrase \in Phrases : Contains(text, phrase) THEN None
    ELSE IF Strip(StripWrappers(text)) = <<>> THEN None
    ELSE Some(Strip(StripWrappers(text)))

CleanComment ==
    /\ script = "get_first_deal"
    /\ print_msg # NoMessage
    /\ ~cleaned.done
    /\ cleaned' = CleanAndFilterComment(print_msg.COMMENT)
    /\ UNCHANGED <<print_msg, printed>>
    /\ UNCHANGED <<execVars, chatVars, callerVars, configVars, threadVars, recentVars, dealVars, pagVars, dialogVars>>

\* The comment texts explored: every text of at most MaxTextLen pieces, and
\* the texts made of an image wrapper, a '&nbsp;', spaces and a body.
SeqsOf(S, lo, hi) == UNION {[1..n -> S] : n \in lo..hi}
Bodies ==
    {b \in SeqsOf({"x", " "}, 1, MaxBodyLen) : b[1] = "x" /\ b[Len(b)] = "x"}
Wrapped(url, spaces, body) ==
    <<"[img]">> \o url \o <<"[/img]", "&nbsp;">> \o spaces \o body
WrappedTexts ==
    {Wrapped(url, spaces, body) :
        url \in SeqsOf({"x"}, 1, MaxUrlLen),
        spaces \in SeqsOf({" "}, 0, MaxSpaces),
        body \in Bodies}
Texts == SeqsOf(Pieces, 0, MaxTextLen) \cup WrappedTexts
PrintMessages == [COMMENT : Texts, CREATED : {"iso", "", "bad"}]

\* ------------------------------------------------------------ specification
InitCommon ==
    /\ api_stats = InitStats
    /\ op = "none"
    /\ pc = "idle"
    /\ attempt = 0
    /\ max_retries = 0
    /\ last_exception = "None"
    /\ ret = EmptyDict
    /\ outcome = "none"
    /\ delay = NoDelay
    /\ json_params = "None"
    /\ verb = "none"
    /\ stats0 = InitStats
    /\ physTrace = <<>>
    /\ physCount = 0
    /\ successReturns = 0
    /\ callsStarted = 0
    /\ callsDone = 0
    /\ callerResult = EmptyDict
    /\ obtained = FALSE
    /\ chatRet = ChatEmpty
    /\ chatRaised = "None"
    /\ chatMethod = "none"
    /\ chatCalls = 0
    /\ all_deals = <<>>
    /\ messages = <<>>
    /\ seen_ids = {}
    /\ start = 0
    /\ page_count = 0
    /\ requestStarts = <<>>
    /\ pageLens = <<>>
    /\ gathered = 0
    /\ sawDuplicate = FALSE
    /\ all_messages = <<>>
    /\ last_id = NoLastId
    /\ limit = 0
    /\ threads = [t \in 1..NumThreads |-> IdleThread]
    /\ all_dialogs = <<>>
    /\ filter_messenger_only = FALSE
    /\ deal_id = NoneId

\* print_dialogues was not called.
NothingPrinted ==
    /\ print_msg = NoMessage
    /\ printed = NoOutput
    /\ cleaned = NotCalled

\* Either script, its client built with the default arguments.
Init ==
    /\ InitCommon
    /\ script \in {"get_first_deal", "get-dialogs"}
    /\ json_error_class \in {"RequestsJSONDecodeError", "ValueError"}
    /\ self_max_retries = DefaultMaxRetries
    /\ sourceSize = 0
    /\ plain_dialogs = {}
    /\ fixedPage = <<>>
    /\ NothingPrinted

CallDirect ==
    \E p \in {"None", "empty", "nonempty"}, n \in (-1)..MaxRetriesBound :
        MakeRequestWithRetry(p, n)

\* Logical calls of the request executors against an arbitrary endpoint.
Next ==
    \/ CallDirect
    \/ BeginAttempt
    \/ DispatchDirect
    \/ DirectReturn
    \/ ChatRequest

Spec == Init /\ [][Next]_vars

\* Logical calls of make_request_with_retry with max_retries >= 0.
CallWithRetries ==
    \E p \in {"None", "empty", "nonempty"}, n \in 0..MaxRetriesBound :
        MakeRequestWithRetry(p, n)

NextCounters ==
    \/ CallWithRetries
    \/ BeginAttempt
    \/ DispatchDirect
    \/ DirectReturn

SpecCounters == Init /\ [][NextCounters]_vars

\* One call of get_deal_dialogues by a new client against an arbitrary comment
\* source.
InitDialogues ==
    /\ InitCommon
    /\ script = "get_first_deal"
    /\ json_error_class = "RequestsJSONDecodeError"
    /\ self_max_retries = 1
    /\ sourceSize = 0
    /\ plain_dialogs = {}
    /\ fixedPage = <<>>
    /\ NothingPrinted

NextDialogues ==
    \/ GetDealDialogues
    \/ BeginAttempt
    \/ DispatchDialogues
    \/ DialoguesPage
    \/ Interrupt

SpecDialogues == InitDialogues /\ [][NextDialogues]_vars

\* One call of get_all_deals by a new client against a deal source of
\* 0..MaxRecords records.
InitDeals ==
    /\ InitCommon
    /\ script = "get_first_deal"
    /\ json_error_class = "RequestsJSONDecodeError"
    /\ self_max_retries = 1
    /\ sourceSize \in 0..MaxRecords
    /\ plain_dialogs = {}
    /\ fixedPage = <<>>
    /\ NothingPrinted

NextDeals ==
    \/ GetAllDeals
    \/ BeginAttempt
    \/ DispatchDeals
    \/ DealsPage
    \/ Interrupt

SpecDeals == InitDeals /\ [][NextDeals]_vars

\* One extraction by a new client against a source that never runs dry.
NextEndless ==
    \/ GetAllDeals
    \/ GetDealDialogues
    \/ BeginAttempt
    \/ DispatchEndless
    \/ DealsPage
    \/ DialoguesPage

SpecEndless == InitDialogues /\ [][NextEndless]_vars

\* Several extractions by one client, get_all_deals and get_deal_dialogues in
\* any order, against a source of uneven pages.
NextOffsets ==
    \/ GetAllDeals
    \/ GetAllDealsAgain
    \/ GetDealDialogues
    \/ GetDealDialoguesAgain
    \/ BeginAttempt
    \/ DispatchOffsets
    \/ DealsPage
    \/ DialoguesPage

SpecOffsets == InitDialogues /\ [][NextOffsets]_vars

\* One call of get_deal_dialogues by a new client against a comment source that
\* answers every request with the same non-empty list.
InitRepeat ==
    /\ InitCommon
    /\ script = "get_first_deal"
    /\ json_error_class = "RequestsJSONDecodeError"
    /\ self_max_retries = 1
    /\ sourceSize = 0
    /\ plain_dialogs = {}
    /\ fixedPage \in Pages \ {<<>>}
    /\ NothingPrinted

NextRepeat ==
    \/ GetDealDialogues
    \/ BeginAttempt
    \/ DispatchRepeat
    \/ DialoguesPage

SpecRepeat == InitRepeat /\ [][NextRepeat]_vars

\* Several calls of get_deal_dialogues by one client against that source.
NextTwice ==
    \/ GetDealDialogues
    \/ GetDealDialoguesAgain
    \/ BeginAttempt
    \/ DispatchRepeat
    \/ DialoguesPage

SpecTwice == InitRepeat /\ [][NextTwice]_vars

\* Calls of get_deal_by_id by one client, with valid and invalid ids.
NextDeal ==
    \/ CallDealById
    \/ BeginAttempt
    \/ DispatchDeal
    \/ DealReturn

SpecDeal == InitDialogues /\ [][NextDeal]_vars

\* Threads that call make_request_with_retry on one new client, each once.
SpecThreads == InitDialogues /\ [][ThreadStep]_vars

\* One call of get_dialog_messages by a new exporter against an arbitrary chat
\* history source.
InitMessages ==
    /\ InitCommon
    /\ script = "get-dialogs"
    /\ json_error_class = "RequestsJSONDecodeError"
    /\ self_max_retries = DefaultMaxRetries
    /\ sourceSize = 0
    /\ plain_dialogs = {}
    /\ fixedPage = <<>>
    /\ NothingPrinted

CallMessages == \E lim \in 1..MaxLimit : GetDialogMessages(lim)

NextMessages ==
    \/ CallMessages
    \/ DispatchMessages

SpecMessages == InitMessages /\ [][NextMessages]_vars

\* One call of get_dialog_messages by a new exporter against a source that
\* honours LAST_ID and answers every request.
InitHonest ==
    /\ InitCommon
    /\ script = "get-dialogs"
    /\ json_error_class = "RequestsJSONDecodeError"
    /\ self_max_retries = DefaultMaxRetries
    /\ sourceSize = 0
    /\ plain_dialogs = {}
    /\ fixedPage \in Histories
    /\ NothingPrinted

NextHonest ==
    \/ CallMessages
    \/ DispatchHonest

SpecHonest == InitHonest /\ [][NextHonest]_vars /\ WF_vars(NextHonest)

\* One call of get_all_dialogs by a new exporter against a source of
\* 0..MaxDialogs recent dialogs with group chats at some ends of its pages.
PlainPositions == {1, RecentLimit, RecentLimit + 1}

InitRecent ==
    /\ InitCommon
    /\ script = "get-dialogs"
    /\ json_error_class = "RequestsJSONDecodeError"
    /\ self_max_retries = DefaultMaxRetries
    /\ sourceSize \in 0..MaxDialogs
    /\ plain_dialogs \in SUBSET PlainPositions
    /\ fixedPage = <<>>
    /\ NothingPrinted

NextRecent ==
    \/ CallAllDialogs
    \/ DispatchRecent

SpecRecent == InitRecent /\ [][NextRecent]_vars

\* One call of get_dialog_messages or of get_wazzup_dialog_messages by a new
\* exporter against a source that answers with one page of FilterPages.
InitFilter ==
    /\ InitCommon
    /\ script = "get-dialogs"
    /\ json_error_class = "RequestsJSONDecodeError"
    /\ self_max_retries = DefaultMaxRetries
    /\ sourceSize = 0
    /\ plain_dialogs = {}
    /\ fixedPage \in FilterPages
    /\ NothingPrinted

NextFilter ==
    \/ CallMessages
    \/ GetWazzupDialogMessages
    \/ DispatchFilter
    \/ DispatchWazzup

SpecFilter == InitFilter /\ [][NextFilter]_vars

\* One comment message, printed by print_dialogues and cleaned by
\* _clean_and_filter_comment.
InitPrint ==
    /\ InitCommon
    /\ script = "get_first_deal"
    /\ json_error_class = "RequestsJSONDecodeError"
    /\ self_max_retries = DefaultMaxRetries
    /\ sourceSize = 0
    /\ plain_dialogs = {}
    /\ fixedPage = <<>>
    /\ print_msg \in PrintMessages
    /\ printed = NoOutput
    /\ cleaned = NotCalled

NextPrint ==
    \/ PrintDialogues
    \/ CleanComment

SpecPrint == InitPrint /\ [][NextPrint]_vars

\* ------------------------------------------------- the request executor
Last(seq) == seq[Len(seq)]

RetriesOfCall == api_stats.retry_attempts - stats0.retry_attempts
AttemptsOfCall == api_stats.total_requests - stats0.total_requests
FailuresOfCall == api_stats.failed_requests - stats0.failed_requests

Every5xx ==
    \A i \in 1..Len(physTrace) :
        physTrace[i].kind = "http" /\ physTrace[i].status \in RetryStatuses

\* C1: a logical call with max_retries = N >= 0 whose every response has a
\* status in {500, 502, 503, 504} makes exactly N+1 physical attempts, adds N to
\* retry_attempts and ends in the failure outcome with failed_requests +1.
C1_RetriesEvery5xx ==
    (op = "direct" /\ pc = "done" /\ max_retries >= 0 /\ Every5xx)
        => /\ Len(physTrace) = max_retries + 1
           /\ RetriesOfCall = max_retries
           /\ ret = EmptyDict
           /\ outcome = "failure"
           /\ FailuresOfCall = 1

\* C6: a logical call with max_retries = N >= 0 makes at least 1 and at most
\* N+1 physical attempts, whatever the physical results are.
C6_AttemptsBounded ==
    (op = "direct" /\ max_retries >= 0)
        => /\ Len(physTrace) <= max_retries + 1
           /\ AttemptsOfCall <= max_retries + 1
           /\ pc = "done" => Len(physTrace) >= 1

C6_Witness ==
    /\ op = "direct" /\ pc = "done"
    /\ max_retries = 2
    /\ Len(physTrace) = 3

\* C7: neither request executor lets an exception through to its caller: the
\* call returns a value whatever the attempt ended in.
C7_NeverRaises ==
    /\ chatRaised = "None"
    /\ pc = "done" => outcome \in {"success", "failure"}

\* C8: an attempt answered by a 2xx body holding `error` ends the logical call
\* at once with the failure outcome: it is the last attempt of the call even if
\* retries remain, and retry_attempts counts only the retries made before it.
C8_ApiErrorIsTerminal ==
    (op = "direct" /\ physTrace # <<>> /\ Last(physTrace).kind = "json_error")
        => /\ pc = "done"
           /\ outcome = "failure"
           /\ ret = EmptyDict
           /\ RetriesOfCall = Len(physTrace) - 1
           /\ AttemptsOfCall = Len(physTrace)

C8_Witness ==
    /\ op = "direct" /\ pc = "done"
    /\ Len(physTrace) = 2
    /\ Last(physTrace).kind = "json_error"
    /\ max_retries = 2
    /\ RetriesOfCall = 1

\* C9: between logical calls total_requests is the number of physical attempts
\* made so far and successful_requests is the number of logical calls that
\* returned a success payload.
C9_CountersMatchCalls ==
    (script = "get_first_deal" /\ pc \in {"idle", "done"})
        => /\ api_stats.total_requests = physCount
           /\ api_stats.successful_requests = successReturns

\* C10: a logical call that ends in failure adds exactly 1 to failed_requests,
\* however many attempts it made, and one that ends in success adds nothing.
C10_FailureCountedOnce ==
    (op = "direct" /\ pc = "done")
        => /\ outcome = "failure" => (FailuresOfCall = 1 /\ ret = EmptyDict)
           /\ outcome = "success" => FailuresOfCall = 0

C10_Witness ==
    /\ op = "direct" /\ pc = "done"
    /\ outcome = "failure"
    /\ Len(physTrace) = 3
    /\ FailuresOfCall = 1

\* ------------------------------------------------------- the paginators
NoSharedId(recs) ==
    \A i, j \in 1..Len(recs) : i # j => recs[i].ID # recs[j].ID

\* C2: within one call of get_deal_dialogues no two accumulated or returned
\* records have the same ID, whatever pages the API returns.
C2_NoDuplicateIds ==
    /\ NoSharedId(messages)
    /\ (obtained /\ IsList(callerResult)) => NoSharedId(callerResult.items)

C2_Witness ==
    /\ op = "none" /\ obtained
    /\ Len(callerResult.items) = 2
    /\ Len(pageLens) >= 2
    /\ sawDuplicate

\* C3: in get_deal_dialogues a non-empty page shorter than the page size is
\* the last one: after the i-th page was such a page, no request i+1 exists.
C3_ShortPageEndsPagination ==
    \A i \in 1..Len(pageLens) :
        (pageLens[i] > 0 /\ pageLens[i] < PageSize) => Len(requestStarts) <= i

SourceRecords == [i \in 1..sourceSize |-> Rec(i)]
PagesNeeded == (sourceSize + PageSize - 1) \div PageSize

\* C4: get_all_deals against a source of N records whose last page is short,
\* no logical call failing, returns the N records in source order in
\* ceil(N / 50) requests with start = 0, 50, 100, ...
C4_DealsFetchedCompletely ==
    (op = "none" /\ obtained /\ api_stats.failed_requests = 0
       /\ sourceSize % PageSize # 0)
        => /\ callerResult = ListOf(SourceRecords)
           /\ requestStarts = [i \in 1..PagesNeeded |-> (i - 1) * PageSize]
           /\ Len(pageLens) = PagesNeeded

C4_Witness ==
    /\ op = "none" /\ obtained
    /\ sourceSize = 120
    /\ requestStarts = <<0, 50, 100>>
    /\ pageLens = <<50, 50, 20>>
    /\ Len(callerResult.items) = 120
    /\ api_stats.retry_attempts > 0

\* C5: an extraction interrupted after 2 full pages of a 5-page source leaves
\* its caller with the 100 records gathered so far.
C5_InterruptKeepsRecords ==
    (op = "interrupted" /\ gathered = 2 * PageSize /\ sourceSize > 4 * PageSize)
        => /\ obtained
           /\ Len(callerResult.items) = gathered

\* ------------------------------------------------------ the page limits
\* C11: one call of get_deal_dialogues issues at most 100 successful page
\* requests, even when every request is answered with a full page of records
\* not seen before.
C11_AtMostHundredPages ==
    (op = "get_deal_dialogues" /\ pc = "done" /\ outcome = "success")
        => Len(requestStarts) <= PageLimit

\* C12: every pagination routine returns after a bounded number of requests
\* whatever the source answers: no extraction issues more requests than the
\* capped routine can, PageLimit + 1.
C12_RequestsBounded == Len(requestStarts) <= PageLimit + 1

\* C13: when a page request ends without success after k pages were processed,
\* get_all_deals and get_deal_dialogues issue no further request and return
\* exactly the records of those k pages.
C13_FailedPageEndsExtraction ==
    (op = "none" /\ obtained /\ api_stats.failed_requests > 0)
        => /\ Len(requestStarts) = Len(pageLens) + 1
           /\ callerResult = ListOf(FirstRecords(Last(requestStarts)))

C13_Witness ==
    /\ op = "none"
    /\ obtained
    /\ api_stats.failed_requests > 0
    /\ Len(pageLens) = 2
    /\ Len(callerResult.items) = 2 * PageSize

\* C15: when the source answers every request with the same non-empty list of
\* records that carry COMMENT, CREATED and AUTHOR_ID but no ID,
\* get_deal_dialogues returns exactly those records, in the order sent.
C15_ReturnsWhatTheApiSent ==
    (op = "none" /\ obtained /\ \A i \in 1..Len(fixedPage) : fixedPage[i].ID = 0)
        => callerResult = ListOf(fixedPage)

\* C14: no two records of the list get_dialog_messages returns share an id,
\* also when the page requested with LAST_ID = m contains record m again.
C14_NoDuplicateMessageIds ==
    (op = "none" /\ obtained /\ callerResult.type = "list")
        => \A i, j \in 1..Len(callerResult.items) :
               callerResult.items[i].id = callerResult.items[j].id => i = j

\* ------------------------------------------------------ the comment filter
HasMarker == Contains(print_msg.COMMENT, Marker)

\* C16: a text that contains '=== SYSTEM WZ ===' at any position is discarded:
\* _clean_and_filter_comment returns None and print_dialogues prints nothing
\* for the message.
C16_SystemMarkerDiscards ==
    HasMarker => /\ cleaned.done => cleaned = None
                 /\ printed.done => ~printed.shown

C16_Witness ==
    /\ HasMarker
    /\ Contains(print_msg.COMMENT, "x")
    /\ print_msg.CREATED = "iso"
    /\ cleaned = None
    /\ printed = Skipped

\* The comment is an image wrapper, a '&nbsp;', spaces and this body.
IsWrapped(body) ==
    \E url \in SeqsOf({"x"}, 1, MaxUrlLen), spaces \in SeqsOf({" "}, 0, MaxSpaces) :
        print_msg.COMMENT = Wrapped(url, spaces, body)

\* C17: cleaning '[img]<url>[/img]' followed by '&nbsp;', spaces and a body
\* without markers or markup yields exactly the body.
C17_WrapperAndNbspRemoved ==
    \A body \in Bodies :
        IsWrapped(body)
            => /\ cleaned.done => cleaned = Some(body)
               /\ (printed.done /\ ~DateRaises(print_msg.CREATED))
                      => printed.shown /\ printed.text = body

C17_Witness ==
    /\ print_msg.COMMENT = Wrapped(<<"x">>, <<" ", " ">>, <<"x", " ", "x">>)
    /\ cleaned = Some(<<"x", " ", "x">>)
    /\ printed = Shown("formatted", <<"x", " ", "x">>)

\* Nothing remains of the comment once wrappers and '&nbsp;' are stripped and
\* the rest is trimmed.
CleansToNothing == Strip(StripWrappers(print_msg.COMMENT)) = <<>>

\* C18: an empty or all-blank text, and a text of which nothing remains after
\* stripping, is discarded: _clean_and_filter_comment returns None and
\* print_dialogues displays nothing for the message.
C18_BlankDiscarded ==
    CleansToNothing => /\ cleaned.done => cleaned = None
                       /\ printed.done => ~printed.shown

\* The comment has no marker, no markup tag, no '&nbsp;' and no white space at
\* either end, and is not empty.
IsPlain ==
    /\ print_msg.COMMENT # <<>>
    /\ \A i \in 1..Len(print_msg.COMMENT) : print_msg.COMMENT[i] \in {"x", " "}
    /\ print_msg.COMMENT[1] # " "
    /\ print_msg.COMMENT[Len(print_msg.COMMENT)] # " "

\* C19: cleaning a text with no marker, no markup wrapper, no '&nbsp;' and no
\* leading or trailing white space returns it unchanged.
C19_PlainTextUnchanged ==
    IsPlain => /\ cleaned.done => cleaned = Some(print_msg.COMMENT)
               /\ (printed.done /\ ~DateRaises(print_msg.CREATED))
                      => printed.shown /\ printed.text = print_msg.COMMENT

C19_Witness ==
    /\ print_msg.COMMENT = <<"x", " ", "x">>
    /\ cleaned = Some(<<"x", " ", "x">>)
    /\ printed = Shown("formatted", <<"x", " ", "x">>)

\* The message is genuine: the text filter keeps a body of it.
IsGenuine == CleanAndFilterComment(print_msg.COMMENT) # None

\* C20: what print_dialogues prints contains neither '=== SYSTEM WZ ===' nor
\* '[img]' nor '&nbsp;', and the body of every genuine message is printed.
C20_PrintedTextIsClean ==
    printed.done
        => /\ ~Contains(printed.text, Marker)
           /\ ~Contains(printed.text, "[img]")
           /\ ~Contains(printed.text, "&nbsp;")
           /\ IsGenuine
                  => /\ printed.shown
                     /\ printed.text = CleanAndFilterComment(print_msg.COMMENT).text

\* ------------------------------------------ retries, delays and dispatch
SuccessesOfCall == api_stats.successful_requests - stats0.successful_requests

AllTransport == \A i \in 1..Len(physTrace) : physTrace[i] = Transport
TransportThenResult ==
    /\ physTrace # <<>>
    /\ \A i \in 1..(Len(physTrace) - 1) : physTrace[i] = Transport
    /\ Last(physTrace).kind = "json_result"

\* C21: when the first k attempts of a logical call fail with a transport
\* error and attempt k+1 gets a 2xx body with `result`, the call returns that
\* payload after k+1 attempts with retry_attempts +k, successful_requests +1
\* and failed_requests +0; when all max_retries+1 attempts fail with transport
\* errors the call ends in failure.
C21_TransportErrorsRetried ==
    (op = "direct" /\ max_retries >= 0)
        => /\ TransportThenResult
                  => /\ pc = "done"
                     /\ outcome = "success"
                     /\ ret = Last(physTrace).payload
                     /\ AttemptsOfCall = Len(physTrace)
                     /\ RetriesOfCall = Len(physTrace) - 1
                     /\ SuccessesOfCall = 1
                     /\ FailuresOfCall = 0
           /\ (pc = "done" /\ physTrace # <<>> /\ AllTransport)
                  => /\ Len(physTrace) = max_retries + 1
                     /\ outcome = "failure"
                     /\ ret = EmptyDict

C21_Witness ==
    /\ op = "direct" /\ pc = "done"
    /\ max_retries = 2
    /\ Len(physTrace) = 3
    /\ TransportThenResult
    /\ outcome = "success"
    /\ RetriesOfCall = 2

\* C22: an attempt answered with an error status outside {500, 502, 503, 504}
\* ends the logical call at once with the failure outcome; it is not retried
\* even if retries remain.
C22_OtherStatusIsTerminal ==
    (op = "direct" /\ physTrace # <<>> /\ Last(physTrace).kind = "http"
        /\ Last(physTrace).status \notin RetryStatuses)
        => /\ pc = "done"
           /\ outcome = "failure"
           /\ ret = EmptyDict
           /\ AttemptsOfCall = Len(physTrace)

C22_Witness ==
    /\ op = "direct" /\ pc = "done"
    /\ max_retries = 2
    /\ physTrace = <<HttpError(404)>>
    /\ outcome = "failure"
    /\ RetriesOfCall = 0

\* C23: a 2xx response whose body is not JSON, or is JSON with neither `error`
\* nor `result`, is a terminal failure of the logical call: it is not retried
\* and successful_requests is not incremented for it.
C23_MalformedBodyIsTerminal ==
    (op = "direct" /\ physTrace # <<>>
        /\ Last(physTrace).kind \in {"invalid_json", "json_scalar", "json_list", "json_object"})
        => /\ pc = "done"
           /\ outcome = "failure"
           /\ SuccessesOfCall = 0

\* C24: a delay precedes every physical attempt, the first attempt of the
\* session included: rate_limit_delay before an attempt 0, the backoff delay
\* before a retry.
C24_DelayBeforeEveryAttempt ==
    pc = "post"
        => /\ delay.kind # "none"
           /\ attempt = 0 => delay = [kind |-> "rate_limit", tenths |-> RateLimitDelay]
           /\ attempt > 0 => delay.kind = "backoff"

\* The delay before retry n lies in [2^n, 2^n + 1] and retry_attempts counts
\* the retries of the call, none for attempt 0.
BackoffInRange ==
    pc = "post"
        => /\ RetriesOfCall = attempt
           /\ attempt > 0
                  => /\ delay.kind = "backoff"
                     /\ 10 * (2 ^ attempt) <= delay.tenths
                     /\ delay.tenths <= 10 * (2 ^ attempt) + 10

\* The delay of a second or later retry exceeds that of the retry before it.
BackoffGrows ==
    (pc = "loop" /\ attempt >= 2 /\ pc' = "post") => delay'.tenths > delay.tenths

\* C25: the delay before retry n is 2^n plus a jitter in [0, 1] and replaces
\* rate_limit_delay, successive retry delays of a call strictly increase, and
\* retry_attempts grows by one per retry and never for attempt 0.
C25_BackoffWithJitter == []BackoffInRange /\ [][BackoffGrows]_vars

C25_Witness ==
    /\ pc = "post"
    /\ attempt = 2
    /\ delay = [kind |-> "backoff", tenths |-> 50]
    /\ RetriesOfCall = 2

\* C26: a request without parameters (params absent or empty) is dispatched
\* as GET and a request with parameters as POST, on every attempt of the call.
C26_VerbFollowsParams ==
    (script = "get_first_deal" /\ verb # "none")
        => verb = IF json_params = "nonempty" THEN "POST" ELSE "GET"

\* ------------------------------------------------- cursors and ordering
\* Every record of the page just received has an ID of the dedup set.
AllDuplicates ==
    /\ IsList(ret)
    /\ Truthy(ret)
    /\ \A i \in 1..Len(ret.items) : ret.items[i].ID # 0 /\ ret.items[i].ID \in seen_ids

StopsOnDuplicates ==
    (op = "get_deal_dialogues" /\ pc = "done" /\ AllDuplicates)
        => /\ op' = "none"
           /\ obtained'
           /\ callerResult' = ListOf(messages)
           /\ requestStarts' = requestStarts
           /\ callsStarted' = callsStarted

\* C27: when every record of a non-empty page has an ID already in the dedup
\* set, get_deal_dialogues stops at once: no further request is issued and it
\* returns exactly what it had accumulated before that page.
C27_DuplicatePageStops == [][StopsOnDuplicates]_vars

C27_Witness ==
    /\ op = "none"
    /\ obtained
    /\ api_stats.failed_requests = 0
    /\ sawDuplicate
    /\ pageLens = <<1, 1>>
    /\ requestStarts = <<0, 1>>
    /\ Len(callerResult.items) = 1

RECURSIVE SumSeq(_)
SumSeq(seq) == IF seq = <<>> THEN 0 ELSE Head(seq) + SumSeq(Tail(seq))

\* C28: with the offset strategy the first request has start = 0 and every
\* later request has the sum of the lengths of all pages received before it,
\* duplicates included; start changes only after a processed page.
C28_StartIsSumOfPageLengths ==
    op \in {"get_all_deals", "get_deal_dialogues"}
        => /\ Len(requestStarts) = Len(pageLens) + 1
           /\ \A i \in 1..Len(requestStarts) :
                  requestStarts[i] = SumSeq(SubSeq(pageLens, 1, i - 1))
           /\ start = Last(requestStarts)

\* The second extraction of a client, get_all_deals, has received pages of
\* PageSize + 1 and PageSize records and asks for the third; the first
\* extraction was a get_deal_dialogues that skipped a duplicate.
C28_Witness ==
    /\ op = "get_all_deals"
    /\ callsDone = 1
    /\ sawDuplicate
    /\ pageLens = <<PageSize + 1, PageSize>>
    /\ requestStarts = <<0, PageSize + 1, 2 * PageSize + 1>>
    /\ start = 2 * PageSize + 1

\* The positions of batch that hold the first record of an ID that is
\* neither missing nor in seen.
FirstOccurrences(batch, seen) ==
    {i \in 1..Len(batch) :
        /\ batch[i].ID # 0
        /\ batch[i].ID \notin seen
        /\ \A j \in 1..(i - 1) : batch[j].ID # batch[i].ID}

\* The records of batch at the positions idx, in batch order.
Pick(batch, idx) ==
    LET n == Cardinality(idx)
        f == CHOOSE g \in [1..n -> idx] : \A a, b \in 1..n : a < b => g[a] < g[b]
    IN  [k \in 1..n |-> batch[f[k]]]

KeepsOrder ==
    (op = "get_deal_dialogues" /\ pc = "done" /\ IsList(ret) /\ Truthy(ret))
        => LET out == IF op' = "none" THEN callerResult'.items ELSE messages'
           IN  out = messages \o Pick(ret.items, FirstOccurrences(ret.items, seen_ids))

\* C30: get_deal_dialogues returns the records in order of first appearance:
\* each page leaves the records accumulated so far in place and appends the
\* first occurrence of every new ID in page order; a later duplicate neither
\* moves nor replaces a record.
C30_FirstAppearanceOrder == [][KeepsOrder]_vars

C30_Witness ==
    /\ op = "none"
    /\ obtained
    /\ sawDuplicate
    /\ Len(pageLens) = 2
    /\ Len(callerResult.items) = 2
    /\ callerResult.items[1].ID = 2
    /\ callerResult.items[2].ID = 1

FirstWithoutLastId ==
    (op = "get_dialog_messages" /\ requestStarts = <<>> /\ requestStarts' # <<>>)
        => requestStarts' = <<NoLastId>>

NextCarriesMinId ==
    (op = "get_dialog_messages" /\ requestStarts # <<>>
        /\ requestStarts' # requestStarts)
        => Last(requestStarts') = MinId(chatRet.payload.items)

\* C29: the first request of get_dialog_messages carries no LAST_ID and every
\* later request carries the least id of all records of the page received
\* just before it, whatever integer ids the source sends.
C29_LastIdIsMinOfPage == [][FirstWithoutLastId /\ NextCarriesMinId]_vars
\* ------------------------------------------------------- the dedup set
SeenMatchesMessages ==
    op = "get_deal_dialogues"
        => /\ seen_ids = IdsOf(messages)
           /\ Cardinality(seen_ids) = Len(messages)
           /\ pageLens = <<>> => seen_ids = {}

SeenOnlyGrows ==
    (op = "get_deal_dialogues" /\ op' = "get_deal_dialogues")
        => seen_ids \subseteq seen_ids'

\* Every extraction returns the first record of each ID of the repeated page,
\* the extractions after the first included.
EachCallStartsAfresh ==
    (op = "none" /\ obtained)
        => callerResult.items = Pick(fixedPage, FirstOccurrences(fixedPage, {}))

\* C31: throughout a call of get_deal_dialogues the dedup set is exactly the
\* set of IDs of the records accumulated so far and has as many elements as
\* there are records; it is empty when the call starts, only grows during the
\* call, and carries nothing from one extraction to the next.
C31_DedupSetTracksMessages ==
    [](SeenMatchesMessages /\ EachCallStartsAfresh) /\ [][SeenOnlyGrows]_vars

C31_Witness ==
    /\ op = "none"
    /\ obtained
    /\ callsDone = 2
    /\ Len(fixedPage) = 2
    /\ Len(callerResult.items) = 2
    /\ sawDuplicate
\* ------------------------------------------------------ the message filters
\* The text holds a wrapper: an opening tag with its closing tag after it.
HasWrapper(text) ==
    \/ RemoveWrapped(text, "[img]", "[/img]") # text
    \/ RemoveWrapped(text, "[url=", "[/url]") # text

\* C32: a message whose text holds a markup wrapper ('[url=...]...[/url]' or
\* '[img]...[/img]') next to other non-blank text is not discarded as a
\* whole: print_dialogues shows it with the wrappers and '&nbsp;' stripped.
C32_WrapperStrippedNotDiscarded ==
    (/\ printed.done
     /\ ~DateRaises(print_msg.CREATED)
     /\ ~HasMarker
     /\ HasWrapper(print_msg.COMMENT)
     /\ ~CleansToNothing)
        => /\ printed.shown
           /\ printed.text = Strip(StripWrappers(print_msg.COMMENT))
\* The records the call has collected or returned.
Collected ==
    IF op = "none" /\ obtained /\ IsList(callerResult)
    THEN callerResult.items
    ELSE all_messages

\* C33: a message whose author_id is 0, or absent and so 0 by default, is
\* never among the messages get_dialog_messages or get_wazzup_dialog_messages
\* collects or returns, whatever its text and whatever page holds it.
C33_SystemAuthorExcluded ==
    \A i \in 1..Len(Collected) : Collected[i].author_id \notin {0, NoAuthor}

C33_Witness ==
    /\ op = "none"
    /\ obtained
    /\ Len(fixedPage) = 2
    /\ fixedPage[1].author_id = NoAuthor
    /\ fixedPage[1].text = <<"x">>
    /\ fixedPage[2].author_id = 1
    /\ Len(pageLens) = 2
    /\ Len(callerResult.items) = 2

\* The call in progress, or the one that just returned, is get_dialog_messages:
\* its first request carries no LAST_ID.
OfDialogMessages ==
    \/ op = "get_dialog_messages"
    \/ op = "none" /\ obtained /\ requestStarts # <<>> /\ requestStarts[1] = NoLastId

HasPhrase(m) ==
    \E phrase \in {"neprochitannyh iz", "Otvetit v", "na kanal",
                    "Sdelka po obrashcheniyu"} : Contains(m.text, phrase)

\* A message of a non-zero author whose text is not blank and holds no
\* '[URL=', no CRM link and no notification phrase.
IsGenuineMessage(m) ==
    /\ m.author_id \notin {0, NoAuthor}
    /\ ~IsBlank(m.text)
    /\ ~Contains(m.text, "[URL=")
    /\ ~Contains(m.text, "bitrix24.ru/crm/")
    /\ ~HasPhrase(m)

RECURSIVE Times(_, _)
Times(seq, k) == IF k = 0 THEN <<>> ELSE seq \o Times(seq, k - 1)

\* C34: get_dialog_messages never collects or returns a message whose text
\* holds one of the four notification phrases, and it keeps every message of a
\* non-zero author whose non-blank text holds none of the discard patterns,
\* once for each page that sent it.
C34_NotificationsDiscarded ==
    OfDialogMessages
        => /\ \A i \in 1..Len(Collected) : ~HasPhrase(Collected[i])
           /\ SelectSeq(Collected, IsGenuineMessage)
                  = Times(SelectSeq(fixedPage, IsGenuineMessage), Len(pageLens))

C34_Witness ==
    /\ op = "none"
    /\ obtained
    /\ OfDialogMessages
    /\ Len(fixedPage) = 2
    /\ fixedPage[1] = [id |-> 1, author_id |-> 1, text |-> <<"x", "Sdelka po obrashcheniyu">>]
    /\ fixedPage[2] = [id |-> 1, author_id |-> 1, text |-> <<"x">>]
    /\ Len(pageLens) = 2
    /\ callerResult.items = <<fixedPage[2], fixedPage[2]>>

\* ------------------------------------------------------------- the counters
RECURSIVE SumMade(_, _)
SumMade(k, n) == IF n = 0 THEN 0 ELSE threads[n].made[k] + SumMade(k, n - 1)

AllThreadsDone == \A t \in 1..NumThreads : threads[t].pc = "done"

\* C35: when threads have run make_request_with_retry on one client
\* concurrently and all have returned, every counter of api_stats is the sum
\* of the increments the threads carried out: no update is lost, whatever the
\* interleaving.
C35_NoLostUpdate ==
    AllThreadsDone
        => \A k \in {"total_requests", "successful_requests", "failed_requests",
                      "retry_attempts"} : api_stats[k] = SumMade(k, NumThreads)

\* No logical call is in progress.
BetweenCalls == script = "get_first_deal" /\ pc \in {"idle", "done"}

\* C36: after any sequence of completed logical calls successful_requests +
\* failed_requests is the number of those calls: each call increments exactly
\* one of the two counters, once, whatever its responses were.
C36_OneOutcomePerCall ==
    BetweenCalls
        => api_stats.successful_requests + api_stats.failed_requests = callsStarted

RetriesAreExtraAttempts ==
    BetweenCalls
        => /\ api_stats.retry_attempts = api_stats.total_requests - callsStarted
           /\ api_stats.successful_requests + api_stats.failed_requests
                  <= api_stats.total_requests

CountersNeverDecrease ==
    /\ api_stats'.total_requests >= api_stats.total_requests
    /\ api_stats'.successful_requests >= api_stats.successful_requests
    /\ api_stats'.failed_requests >= api_stats.failed_requests
    /\ api_stats'.retry_attempts >= api_stats.retry_attempts
    /\ api_stats.start_time # 0 => api_stats'.start_time = api_stats.start_time

\* C37: after any sequence of completed logical calls with max_retries >= 0,
\* retry_attempts is total_requests minus the number of calls and
\* successful_requests + failed_requests is at most total_requests; no counter
\* ever decreases and start_time, once set, does not change.
C37_CountersConsistent == []RetriesAreExtraAttempts /\ [][CountersNeverDecrease]_vars

\* ------------------------------------------------------- the recent dialogs
\* The starts an extraction of the whole source requests: one for every
\* RecentLimit dialogs until a page is short or empty.
StartsOfWholeSource ==
    [i \in 1..(sourceSize \div RecentLimit + 1) |-> (i - 1) * RecentLimit]

MessengerDialogsOfSource ==
    SelectSeq([i \in 1..sourceSize |-> DialogAt(i)],
              LAMBDA d : d.type = "user" /\ d.bot /\ d.app_id = WazzupAppId)

\* C38: get_all_dialogs decides on another page by the number of dialogs the
\* API returned, not by the number the messenger filter keeps: when no request
\* failed it has requested every page of the source, with the filter as
\* without, and with the filter it returns every messenger dialog of the
\* source.
C38_FilterDoesNotEndPagination ==
    (op = "none" /\ obtained /\ chatRet.kind = "json_result")
        => /\ requestStarts = StartsOfWholeSource
           /\ filter_messenger_only => callerResult.items = MessengerDialogsOfSource

\* ------------------------------------------------- an honest history source
\* Every request after the first carries a LAST_ID below that of the request
\* before it.
LastIdDecreases ==
    op = "get_dialog_messages"
        => \A i \in 2..Len(requestStarts) :
               /\ requestStarts[i] # NoLastId
               /\ i > 2 => requestStarts[i] < requestStarts[i - 1]

\* The pages received so far hold no message twice, and all of them once the
\* call has returned.
ReceivedOnce ==
    /\ SumSeq(pageLens) <= Len(fixedPage)
    /\ (op = "none" /\ obtained) => SumSeq(pageLens) = Len(fixedPage)

\* C39: against a source that honours LAST_ID and answers every request,
\* get_dialog_messages terminates, the LAST_ID it sends decreases strictly
\* from request to request and it receives every message of the dialog
\* exactly once.
C39_HonestSourceIsExhausted ==
    /\ [](LastIdDecreases /\ ReceivedOnce)
    /\ (op = "get_dialog_messages") ~> (op = "none" /\ obtained)

\* --------------------------------------------------------- invalid deal ids
\* The id is None, an empty or non-digit string, a non-positive integer or a
\* value of another type.
IsInvalidId(d) ==
    \/ d.type = "NoneType"
    \/ d.type = "str" /\ (d.chars = <<>> \/ \E i \in 1..Len(d.chars) : d.chars[i] # "7")
    \/ d.type \in {"int", "bool"} /\ d.number <= 0
    \/ d.type \notin {"NoneType", "str", "int", "bool"}

InvalidIdReturnsAtOnce ==
    (op = "none" /\ (callsDone' # callsDone \/ op' # op) /\ IsInvalidId(deal_id'))
        => /\ op' = "none"
           /\ obtained'
           /\ callerResult' = EmptyDict
           /\ api_stats' = api_stats
           /\ physCount' = physCount
           /\ callsStarted' = callsStarted

\* C40: get_deal_by_id called with an invalid id returns the empty mapping
\* without a request: no counter of api_stats and not start_time changes.
C40_InvalidIdMakesNoRequest == [][InvalidIdReturnsAtOnce]_vars

C40_Witness ==
    /\ op = "none"
    /\ obtained
    /\ callsDone = 2
    /\ deal_id = StrId(<<"7", "a">>)
    /\ callerResult = EmptyDict
    /\ api_stats.total_requests = 2
    /\ api_stats.successful_requests = 1
    /\ api_stats.start_time # 0
====
